---- MODULE Spec2Model ----
(***************************************************************************)
(* Song identity resolution and merge engine of cratecaddy                 *)
(* (src/src/api/src/services/songService.ts, src/src/api/src/models/       *)
(* Song.ts).                                                               *)
(*                                                                         *)
(* Strings are sequences of UTF-16 code units restricted to Latin-1        *)
(* (0..255); an optional value is <<>> (undefined) or <<v>>.               *)
(***************************************************************************)
EXTENDS Integers, Sequences, FiniteSets, TLC

VARIABLES
    catalog,   \* the stored Songs, in insertion order
    nextId,    \* the next _id the store assigns
    history    \* one record per operation performed, oldest first

vars == <<catalog, nextId, history>>

----------------------------------------------------------------------------
(* Optional values                                                         *)

None == <<>>

Some(v) == <<v>>

IsSome(o) == Len(o) = 1

Val(o) == o[1]

----------------------------------------------------------------------------
(* Characters and strings                                                  *)

\* JavaScript \s and String.prototype.trim whitespace, within Latin-1
IsSpace(c) == c \in {9, 10, 11, 12, 13, 32, 160}

\* JavaScript \w (ASCII only: the regex on line 17 has no u flag)
IsWordChar(c) == (c \in 48..57) \/ (c \in 65..90) \/ (c \in 97..122) \/ c = 95

\* \p{Letter} within Latin-1
IsLetter(c) ==
    \/ c \in 65..90
    \/ c \in 97..122
    \/ c \in {170, 181, 186}
    \/ c \in 192..214
    \/ c \in 216..246
    \/ c \in 248..255

\* \p{Number} within Latin-1
IsNumber(c) == (c \in 48..57) \/ (c \in {178, 179, 185, 188, 189, 190})

\* String.prototype.toLowerCase on one Latin-1 code unit
LowerChar(c) ==
    IF (c \in 65..90) \/ (c \in 192..214) \/ (c \in 216..222) THEN c + 32 ELSE c

toLowerCase(s) == [i \in 1..Len(s) |-> LowerChar(s[i])]

RECURSIVE TrimLeft(_)
TrimLeft(s) ==
    IF Len(s) = 0 THEN s
    ELSE IF IsSpace(Head(s)) THEN TrimLeft(Tail(s)) ELSE s

RECURSIVE TrimRight(_)
TrimRight(s) ==
    IF Len(s) = 0 THEN s
    ELSE IF IsSpace(s[Len(s)]) THEN TrimRight(SubSeq(s, 1, Len(s) - 1)) ELSE s

\* String.prototype.trim, also the schema option trim: true
Trim(s) == TrimRight(TrimLeft(s))

\* "original mix"
OriginalMix == <<111, 114, 105, 103, 105, 110, 97, 108, 32, 109, 105, 120>>

\* /\boriginal mix\b/ matches at position i of s
OriginalMixAt(s, i) ==
    /\ i + Len(OriginalMix) - 1 <= Len(s)
    /\ SubSeq(s, i, i + Len(OriginalMix) - 1) = OriginalMix
    /\ (i = 1 \/ ~IsWordChar(s[i - 1]))
    /\ (i + Len(OriginalMix) > Len(s) \/ ~IsWordChar(s[i + Len(OriginalMix)]))

RECURSIVE RemoveOriginalMixFrom(_, _)
RemoveOriginalMixFrom(s, i) ==
    IF i > Len(s) THEN <<>>
    ELSE IF OriginalMixAt(s, i) THEN RemoveOriginalMixFrom(s, i + Len(OriginalMix))
    ELSE <<s[i]>> \o RemoveOriginalMixFrom(s, i + 1)

\* .replace(/\boriginal mix\b/, ''), without the g flag: the first match only
RemoveFirstOriginalMix(s) ==
    IF \E i \in 1..Len(s) : OriginalMixAt(s, i)
    THEN LET i == CHOOSE j \in 1..Len(s) :
                     OriginalMixAt(s, j) /\ \A k \in 1..(j - 1) : ~OriginalMixAt(s, k)
         IN SubSeq(s, 1, i - 1) \o SubSeq(s, i + Len(OriginalMix), Len(s))
    ELSE s

\* .replace(/\boriginal mix\b/g, '')
RemoveOriginalMix(s) == RemoveOriginalMixFrom(s, 1)

KeptChar(c) == IsLetter(c) \/ IsNumber(c) \/ IsSpace(c)

\* .replace(/[^a-z0-9\s]/g, ''): ASCII letters and digits only
RemoveNonAscii(s) ==
    SelectSeq(s, LAMBDA c : (c \in 97..122) \/ (c \in 48..57) \/ IsSpace(c))

\* .replace(/[^\p{Letter}\p{Number}\s]/gu, '')
RemovePunctuation(s) == SelectSeq(s, KeptChar)

RECURSIVE CollapseWhitespace(_)
\* .replace(/\s+/g, ' ')
CollapseWhitespace(s) ==
    IF Len(s) = 0 THEN s
    ELSE IF IsSpace(Head(s))
         THEN <<32>> \o CollapseWhitespace(TrimLeft(Tail(s)))
         ELSE <<Head(s)>> \o CollapseWhitespace(Tail(s))

normalizeArtistTitle(artist, title) ==
    IF Len(artist) = 0 \/ Len(title) = 0 THEN <<>>
    ELSE Trim(CollapseWhitespace(RemovePunctuation(RemoveOriginalMix(
             toLowerCase(Trim(artist \o <<32>> \o title))))))

----------------------------------------------------------------------------
(* Data model (models/Song.ts)                                             *)
(*                                                                         *)
(* A stored Song is a record with fields id, title, artist, album,         *)
(* duration, genres, grouping, bpm, year, key, rating,                     *)
(* artistTitleNormalized, sources.  title, artist, album, key and          *)
(* artistTitleNormalized are optional strings; duration, bpm, year and     *)
(* rating optional numbers; genres and grouping arrays of tags; sources    *)
(* an array of Sources.  A Partial<ISong> has the same fields without id,  *)
(* every one optional (None: the key is absent).                           *)
(*                                                                         *)
(* A Source is [sourceType, filePath, bitRate, sourceMetadata] where       *)
(* sourceMetadata is optional and, when present, a record [id |-> ...]     *)
(* with an optional id.                                                    *)

SourceTypes == {"applemusic", "rekordbox", "djaypro", "local"}

\* JavaScript truthiness of an optional string
Truthy(o) == IsSome(o) /\ Len(Val(o)) > 0

\* JavaScript truthiness of an optional number
TruthyNum(o) == IsSome(o) /\ Val(o) # 0

\* s.sourceMetadata?.id
MetaId(s) == IF IsSome(s.sourceMetadata) THEN Val(s.sourceMetadata).id ELSE None

\* A Partial<ISong> with no key set
EmptyData ==
    [title |-> None, artist |-> None, album |-> None, duration |-> None,
     genres |-> None, grouping |-> None, bpm |-> None, year |-> None,
     key |-> None, rating |-> None, artistTitleNormalized |-> None,
     sources |-> None]

\* existing.toObject(): every stored path of the document
toObject(song) ==
    [title |-> song.title, artist |-> song.artist, album |-> song.album,
     duration |-> song.duration, genres |-> Some(song.genres),
     grouping |-> Some(song.grouping), bpm |-> song.bpm, year |-> song.year,
     key |-> song.key, rating |-> song.rating,
     artistTitleNormalized |-> song.artistTitleNormalized,
     sources |-> Some(song.sources)]

----------------------------------------------------------------------------
(* Merger (SongService.mergeSongData)                                      *)

RECURSIVE Dedupe(_)
\* Array.from(new Set(a)): first occurrences, in order
Dedupe(a) ==
    IF Len(a) = 0 THEN a
    ELSE LET rest == Dedupe(SubSeq(a, 1, Len(a) - 1))
             x == a[Len(a)]
         IN IF \E i \in 1..Len(rest) : rest[i] = x THEN rest ELSE Append(rest, x)

\* mergeGenres taking the incoming list in place of the union
mergeGenresOverwrite(existingGenres, incomingGenres) ==
    IF IsSome(incomingGenres) THEN incomingGenres ELSE Some(existingGenres)

\* genres, lines 110-114
mergeGenres(existingGenres, incomingGenres) ==
    IF IsSome(incomingGenres)
    THEN Some(Dedupe(existingGenres \o Val(incomingGenres)))
    ELSE Some(existingGenres)

\* mergeGrouping taking the incoming list in place of the union
mergeGroupingOverwrite(existingGrouping, incomingGrouping) ==
    IF IsSome(incomingGrouping) THEN incomingGrouping ELSE Some(existingGrouping)

\* grouping, lines 116-120
mergeGrouping(existingGrouping, incomingGrouping) ==
    IF IsSome(incomingGrouping)
    THEN Some(Dedupe(existingGrouping \o Val(incomingGrouping)))
    ELSE Some(existingGrouping)

\* bpm, year, rating: lines 123-131
mergeNumber(existingValue, incomingValue) ==
    IF IsSome(incomingValue) THEN incomingValue ELSE existingValue

\* mergeString without the test for the empty string
mergeStringAnyValue(existingValue, incomingValue) ==
    IF IsSome(incomingValue) THEN incomingValue ELSE existingValue

\* key, album: lines 132-134 and 141-143
mergeString(existingValue, incomingValue) ==
    IF IsSome(incomingValue) /\ Len(Val(incomingValue)) > 0
    THEN incomingValue ELSE existingValue

\* mergeDuration without the test of the existing duration
mergeDurationOverwrite(existingDuration, incomingDuration) ==
    IF IsSome(incomingDuration) /\ Val(incomingDuration) > 0
    THEN incomingDuration ELSE existingDuration

\* duration, lines 135-140
mergeDuration(existingDuration, incomingDuration) ==
    IF IsSome(incomingDuration) /\ Val(incomingDuration) > 0
    THEN IF ~TruthyNum(existingDuration) THEN incomingDuration ELSE existingDuration
    ELSE existingDuration

\* newSource.sourceMetadata?.id || newSource.filePath
sourceKey(newSource) ==
    IF Truthy(MetaId(newSource)) THEN MetaId(newSource) ELSE newSource.filePath

\* sourceMatches without the filePath comparison
sourceMatchesIdOnly(s, newSource) ==
    /\ s.sourceType = newSource.sourceType
    /\ Truthy(sourceKey(newSource)) /\ MetaId(s) = sourceKey(newSource)

\* the findIndex callback, lines 150-156
sourceMatches(s, newSource) ==
    /\ s.sourceType = newSource.sourceType
    /\ \/ Truthy(sourceKey(newSource)) /\ MetaId(s) = sourceKey(newSource)
       \/ Truthy(newSource.filePath) /\ s.filePath = newSource.filePath

\* existingSources.findIndex(...): 0 when none matches (JavaScript's -1)
existingIndex(existingSources, newSource) ==
    IF \E i \in 1..Len(existingSources) : sourceMatches(existingSources[i], newSource)
    THEN CHOOSE i \in 1..Len(existingSources) :
             /\ sourceMatches(existingSources[i], newSource)
             /\ \A j \in 1..(i - 1) : ~sourceMatches(existingSources[j], newSource)
    ELSE 0

\* mergeSources copying the incoming fields over the matched Source,
\* Object.assign(existingSources[idx], newSource): a field the incoming
\* Source lacks keeps its old value
mergeSourcesAssign(existingSources, newSource) ==
    LET idx == existingIndex(existingSources, newSource)
        old == existingSources[idx]
    IN IF idx >= 1
       THEN [existingSources EXCEPT ![idx] =
                [sourceType |-> newSource.sourceType,
                 filePath |-> IF IsSome(newSource.filePath) THEN newSource.filePath
                              ELSE old.filePath,
                 bitRate |-> IF IsSome(newSource.bitRate) THEN newSource.bitRate
                             ELSE old.bitRate,
                 sourceMetadata |-> IF IsSome(newSource.sourceMetadata)
                                    THEN newSource.sourceMetadata
                                    ELSE old.sourceMetadata]]
       ELSE Append(existingSources, newSource)

\* mergeSources removing the matched Source without storing the new one
mergeSourcesSplice(existingSources, newSource) ==
    LET idx == existingIndex(existingSources, newSource)
    IN IF idx >= 1
       THEN SubSeq(existingSources, 1, idx - 1)
               \o SubSeq(existingSources, idx + 1, Len(existingSources))
       ELSE Append(existingSources, newSource)

\* sources, lines 146-166
mergeSources(existingSources, newSource) ==
    LET idx == existingIndex(existingSources, newSource)
    IN IF idx >= 1
       THEN [existingSources EXCEPT ![idx] = newSource]
       ELSE Append(existingSources, newSource)

mergeSongData(existing, incoming, newSource) ==
    [toObject(existing) EXCEPT
        !.genres = mergeGenres(existing.genres, incoming.genres),
        !.grouping = mergeGrouping(existing.grouping, incoming.grouping),
        !.bpm = mergeNumber(existing.bpm, incoming.bpm),
        !.year = mergeNumber(existing.year, incoming.year),
        !.rating = mergeNumber(existing.rating, incoming.rating),
        !.key = mergeString(existing.key, incoming.key),
        !.duration = mergeDuration(existing.duration, incoming.duration),
        !.album = mergeString(existing.album, incoming.album),
        !.sources = Some(mergeSources(existing.sources, newSource))]

----------------------------------------------------------------------------
(* Document store (mongoose model Song)                                    *)

\* schema option trim: true on a string path
castString(o) == IF IsSome(o) THEN Some(Trim(Val(o))) ELSE o

\* sourceSchema: filePath is trimmed
castSource(s) == [s EXCEPT !.filePath = castString(@)]

castSources(ss) == [i \in 1..Len(ss) |-> castSource(ss[i])]

\* String(v) of an optional string as normalizeArtistTitle sees it (!v is true
\* of undefined and of '')
StrOf(o) == IF IsSome(o) THEN Val(o) ELSE <<>>

\* new Song(data): setters and defaults of songSchema
NewSong(data) ==
    [id |-> 0,
     title |-> castString(data.title),
     artist |-> castString(data.artist),
     album |-> castString(data.album),
     duration |-> data.duration,
     genres |-> IF IsSome(data.genres) THEN Val(data.genres) ELSE <<>>,
     grouping |-> IF IsSome(data.grouping) THEN Val(data.grouping) ELSE <<>>,
     bpm |-> data.bpm,
     year |-> data.year,
     key |-> castString(data.key),
     rating |-> data.rating,
     artistTitleNormalized |-> castString(data.artistTitleNormalized),
     sources |-> IF IsSome(data.sources) THEN castSources(Val(data.sources)) ELSE <<>>]

\* Validation that does not require artistTitleNormalized
ValidatesTitleOnly(doc) ==
    /\ Truthy(doc.title)
    /\ \A i \in 1..Len(doc.sources) : doc.sources[i].sourceType \in SourceTypes

\* Validation of save(): the required paths title and artistTitleNormalized
\* (a required string must be non-empty) and each source's sourceType enum.
\* Mongoose validates in its own pre('save') hook, which runs before the
\* hooks the schema registers.
Validates(doc) ==
    /\ Truthy(doc.title)
    /\ Truthy(doc.artistTitleNormalized)
    /\ \A i \in 1..Len(doc.sources) : doc.sources[i].sourceType \in SourceTypes

\* songSchema.pre('save') for a new document
preSave(doc) ==
    [doc EXCEPT !.artistTitleNormalized =
        Some(normalizeArtistTitle(StrOf(doc.artist), StrOf(doc.title)))]

\* The document findByIdAndUpdate(id, update) leaves: every key of update
\* is $set after casting, no middleware and no validator runs
applyUpdate(song, update) ==
    [id |-> song.id,
     title |-> IF IsSome(update.title) THEN castString(update.title) ELSE song.title,
     artist |-> IF IsSome(update.artist) THEN castString(update.artist) ELSE song.artist,
     album |-> IF IsSome(update.album) THEN castString(update.album) ELSE song.album,
     duration |-> IF IsSome(update.duration) THEN update.duration ELSE song.duration,
     genres |-> IF IsSome(update.genres) THEN Val(update.genres) ELSE song.genres,
     grouping |-> IF IsSome(update.grouping) THEN Val(update.grouping) ELSE song.grouping,
     bpm |-> IF IsSome(update.bpm) THEN update.bpm ELSE song.bpm,
     year |-> IF IsSome(update.year) THEN update.year ELSE song.year,
     key |-> IF IsSome(update.key) THEN castString(update.key) ELSE song.key,
     rating |-> IF IsSome(update.rating) THEN update.rating ELSE song.rating,
     artistTitleNormalized |->
        IF IsSome(update.artistTitleNormalized)
        THEN castString(update.artistTitleNormalized)
        ELSE song.artistTitleNormalized,
     sources |-> IF IsSome(update.sources) THEN castSources(Val(update.sources))
                 ELSE song.sources]

\* Positions of the documents with this _id (at most one)
IndexOfId(cat, id) == {i \in 1..Len(cat) : cat[i].id = id}

\* An update addressed by normalized identity instead of _id
updateManyByKey(cat, id, update) ==
    [i \in 1..Len(cat) |->
        IF \E j \in IndexOfId(cat, id) :
              cat[j].artistTitleNormalized = cat[i].artistTitleNormalized
        THEN applyUpdate(cat[i], update) ELSE cat[i]]

findByIdAndUpdate(cat, id, update) ==
    [i \in 1..Len(cat) |-> IF cat[i].id = id THEN applyUpdate(cat[i], update) ELSE cat[i]]

----------------------------------------------------------------------------
(* Matcher (SongService.findMatchingSong)                                  *)

DurationTolerance == 2000

ExactTolerance == 1000

Abs(n) == IF n < 0 THEN 0 - n ELSE n

\* duration !== undefined, without the test for a positive number
DurationDefined(duration) == IsSome(duration)

\* duration && duration > 0
DurationGiven(duration) == IsSome(duration) /\ Val(duration) > 0

\* The query with the band of the exact match, 1000 ms, as its tolerance
candidatesNarrow(cat, normalizedArtistTitle, duration) ==
    {i \in 1..Len(cat) :
        /\ cat[i].artistTitleNormalized = Some(normalizedArtistTitle)
        /\ DurationGiven(duration) =>
              /\ IsSome(cat[i].duration)
              /\ Val(cat[i].duration) >= Val(duration) - ExactTolerance
              /\ Val(cat[i].duration) <= Val(duration) + ExactTolerance}

\* Song.find(query): the positions of the documents the query selects
candidates(cat, normalizedArtistTitle, duration) ==
    {i \in 1..Len(cat) :
        /\ cat[i].artistTitleNormalized = Some(normalizedArtistTitle)
        /\ DurationGiven(duration) =>
              /\ IsSome(cat[i].duration)
              /\ Val(cat[i].duration) >= Val(duration) - DurationTolerance
              /\ Val(cat[i].duration) <= Val(duration) + DurationTolerance}

\* the callback comparing with <= in place of <
isExactMatchInclusive(song, duration) ==
    TruthyNum(song.duration) /\ Abs(Val(song.duration) - Val(duration)) <= ExactTolerance

\* the candidates.find callback, line 85
isExactMatch(song, duration) ==
    TruthyNum(song.duration) /\ Abs(Val(song.duration) - Val(duration)) < ExactTolerance

\* The number of Song.find queries findMatchingSong sends: none when the
\* normalized key is empty (the early return of lines 59-61)
findReads(artist, title) ==
    IF Len(normalizeArtistTitle(artist, title)) = 0 THEN 0 ELSE 1

\* The positions findMatchingSong can return, 0 for null.  Song.find has no
\* sort, so the store fixes no order of the candidates: the first exact
\* match, or else candidates[0], may be any of them.
findMatchingSong(cat, artist, title, duration) ==
    LET normalizedArtistTitle == normalizeArtistTitle(artist, title)
        cands == candidates(cat, normalizedArtistTitle, duration)
        exact == {i \in cands : isExactMatch(cat[i], duration)}
    IN IF Len(normalizedArtistTitle) = 0 THEN {0}
       ELSE IF cands = {} THEN {0}
       ELSE IF DurationGiven(duration) /\ exact # {} THEN exact
       ELSE cands

----------------------------------------------------------------------------
(* Upsert orchestrator (SongService.upsertSongWithMerge) and the CRUD      *)
(* operations, each a single step against the catalog                      *)

NoSource ==
    [sourceType |-> "local", filePath |-> None, bitRate |-> None, sourceMetadata |-> None]

\* The record of one operation: its arguments, the Song the matcher
\* returned, the merged fields, the outcome, the catalog it started from, the
\* number of queries it sent and the number of writes that changed the store
NoCall ==
    [op |-> "none", artist |-> <<>>, title |-> <<>>, duration |-> None,
     songData |-> EmptyData, source |-> NoSource, id |-> 0, existing |-> None,
     merged |-> None, outcome |-> "none", before |-> <<>>, reads |-> 0, writes |-> 0,
     key |-> <<>>]

\* The latest operation
call == IF Len(history) = 0 THEN NoCall ELSE history[Len(history)]

\* { ...songData, artist, title, duration, sources: [source] }
newSongFields(artist, title, duration, songData, source) ==
    [songData EXCEPT !.artist = Some(artist), !.title = Some(title),
                     !.duration = duration, !.sources = Some(<<source>>)]

\* save() that sends the insert before the validation has passed
SaveThenValidate(doc, op) ==
    /\ catalog' = Append(catalog, [preSave(doc) EXCEPT !.id = nextId])
    /\ nextId' = nextId + 1
    /\ history' = Append(history,
                         [op EXCEPT !.outcome = IF Validates(doc) THEN "inserted"
                                                 ELSE "rejected",
                                    !.id = nextId, !.writes = 1])

\* newSong.save(): validation, then the pre('save') hook, then the insert
Save(doc, op) ==
    IF Validates(doc)
    THEN /\ catalog' = Append(catalog, [preSave(doc) EXCEPT !.id = nextId])
         /\ nextId' = nextId + 1
         /\ history' = Append(history, [op EXCEPT !.outcome = "inserted", !.id = nextId,
                                                  !.writes = 1])
    ELSE /\ UNCHANGED <<catalog, nextId>>
         /\ history' = Append(history, [op EXCEPT !.outcome = "rejected"])

upsertSongWithMerge(artist, title, duration, songData, source) ==
    \E m \in findMatchingSong(catalog, artist, title, duration) :
          LET op == [NoCall EXCEPT !.op = "upsert", !.artist = artist, !.title = title,
                                   !.duration = duration, !.songData = songData,
                                   !.source = source, !.before = catalog,
                                   !.reads = findReads(artist, title)]
          IN IF m # 0
             THEN LET existing == catalog[m]
                      merged == mergeSongData(existing, songData, source)
                  IN /\ catalog' = findByIdAndUpdate(catalog, existing.id, merged)
                     /\ nextId' = nextId
                     /\ history' = Append(history,
                                           [op EXCEPT !.existing = Some(existing),
                                                      !.merged = Some(merged),
                                                      !.id = existing.id,
                                                      !.outcome = "updated",
                                                      !.writes = 1])
             ELSE Save(NewSong(newSongFields(artist, title, duration, songData, source)), op)

Init ==
    /\ catalog = <<>>
    /\ nextId = 1
    /\ history = <<>>

----------------------------------------------------------------------------
(* Inputs                                                                  *)

MaxCalls == 2

StrAb == <<65, 98>>                \* "Ab"

StrAbBang == <<97, 66, 33>>        \* "aB!"

StrGo == <<71, 111>>               \* "Go"

PathA == <<47, 97>>                \* "/a"

PathB == <<47, 98>>                \* "/b"

Id1 == <<49>>                      \* "1"

Id2 == <<50>>                      \* "2"

Artists == {<<>>, StrAb, StrAbBang}

Titles == {StrGo}

Durations == {None, Some(320000), Some(322000), Some(322500)}

\* songData as the Apple Music importer builds it: no artistTitleNormalized
appleSongData(title, duration) ==
    [EmptyData EXCEPT !.title = Some(title), !.album = Some(<<>>),
                      !.genres = Some(<<>>), !.grouping = Some(<<"DJing">>),
                      !.duration = duration]

\* songData as the Rekordbox importer builds it
rekordboxSongData(artist, title, duration) ==
    [EmptyData EXCEPT !.title = Some(title), !.album = Some(<<>>),
                      !.genres = Some(<<>>), !.grouping = Some(<<>>),
                      !.duration = duration,
                      !.artistTitleNormalized = Some(normalizeArtistTitle(artist, title))]

SongDatas(artist, title, duration) ==
    {appleSongData(title, duration), rekordboxSongData(artist, title, duration)}

\* Sources as the importers build them: Apple Music carries sourceMetadata.id
\* (the track id) and the Location; Rekordbox carries no id and the Location,
\* '' when the track has none
appleSource(id, location) ==
    [sourceType |-> "applemusic", filePath |-> Some(location), bitRate |-> Some(256),
     sourceMetadata |-> Some([id |-> Some(id)])]

rekordboxSource(location) ==
    [sourceType |-> "rekordbox", filePath |-> Some(location), bitRate |-> Some(320),
     sourceMetadata |-> Some([id |-> None])]

Sources ==
    {appleSource(Id1, PathA), appleSource(Id2, PathA),
     rekordboxSource(PathA), rekordboxSource(<<>>)}

Upsert ==
    /\ Len(history) < MaxCalls
    /\ \E artist \in Artists, title \in Titles, duration \in Durations, source \in Sources :
          \E songData \in SongDatas(artist, title, duration) :
             upsertSongWithMerge(artist, title, duration, songData, source)

Next == Upsert

Spec == Init /\ [][Next]_vars

----------------------------------------------------------------------------
(* createSong and updateSong, with the upsert                              *)

\* SongService.createSong
createSong(data) ==
    Save(NewSong(data), [NoCall EXCEPT !.op = "create", !.songData = data,
                                       !.before = catalog])

\* SongService.updateSong
updateSong(id, data) ==
    LET op == [NoCall EXCEPT !.op = "update", !.id = id, !.songData = data,
                             !.before = catalog]
    IN IF IndexOfId(catalog, id) # {}
       THEN /\ catalog' = findByIdAndUpdate(catalog, id, data)
            /\ nextId' = nextId
            /\ history' = Append(history, [op EXCEPT !.outcome = "updated", !.writes = 1])
       ELSE /\ UNCHANGED <<catalog, nextId>>
            /\ history' = Append(history, [op EXCEPT !.outcome = "notfound"])

StrCd == <<67, 100>>               \* "Cd"

StrAm == <<65, 109>>               \* "Am"

StrX == <<88>>                     \* "X"

\* Request bodies of POST /api/songs and PUT /api/songs/:id
CrudDatas ==
    {[EmptyData EXCEPT !.title = Some(StrGo), !.artist = Some(StrAb),
                       !.artistTitleNormalized = Some(normalizeArtistTitle(StrAb, StrGo))],
     [EmptyData EXCEPT !.title = Some(StrGo), !.artist = Some(StrAb)],
     [EmptyData EXCEPT !.artist = Some(StrAb), !.genres = Some(<<"house">>)],
     [EmptyData EXCEPT !.artist = Some(StrCd)],
     [EmptyData EXCEPT !.bpm = Some(120)]}

CreateSong ==
    /\ Len(history) < MaxCalls
    /\ \E data \in CrudDatas : createSong(data)

UpdateSong ==
    /\ Len(history) < MaxCalls
    /\ \E id \in 1..nextId, data \in CrudDatas : updateSong(id, data)

NextCrud == Upsert \/ CreateSong \/ UpdateSong

SpecCrud == Init /\ [][NextCrud]_vars

----------------------------------------------------------------------------
(* mergeSongData as a function: the inputs are drawn in the initial state, *)
(* one family of fields at a time, and one step applies the merge          *)

MaxExistingSources == 2

BaseSong ==
    [id |-> 1, title |-> Some(StrGo), artist |-> Some(StrAb), album |-> Some(StrX),
     duration |-> Some(320000), genres |-> <<"house">>, grouping |-> <<>>,
     bpm |-> Some(120), year |-> None, key |-> Some(StrAm), rating |-> None,
     artistTitleNormalized |-> Some(normalizeArtistTitle(StrAb, StrGo)),
     sources |-> <<rekordboxSource(PathA)>>]

BaseIncoming == rekordboxSongData(StrAb, StrGo, Some(322000))

TagLists == {<<>>, <<"house">>, <<"house", "house">>, <<"house", "techno">>, <<"techno">>}

OptTagLists == {None} \cup {Some(l) : l \in TagLists}

OptStrings == {None, Some(<<>>), Some(StrAm), Some(StrX)}

MergeSources ==
    [sourceType : {"applemusic", "rekordbox"},
     filePath : {None, Some(<<>>), Some(PathA), Some(PathB)},
     bitRate : {None},
     sourceMetadata : {None, Some([id |-> Some(Id1)]), Some([id |-> Some(Id2)])}]

RECURSIVE SeqsUpTo(_, _)
\* The sequences over S of length at most n
SeqsUpTo(S, n) ==
    IF n = 0 THEN {<<>>}
    ELSE LET shorter == SeqsUpTo(S, n - 1)
         IN shorter \cup {Append(q, x) : q \in {r \in shorter : Len(r) = n - 1}, x \in S}

MergeInput(existing, incoming, newSource) ==
    /\ catalog = <<>>
    /\ nextId = 1
    /\ history = <<[NoCall EXCEPT !.op = "mergeInput", !.existing = Some(existing),
                                  !.songData = incoming, !.source = newSource]>>

InitTags ==
    \E eg \in TagLists, er \in TagLists, ig \in OptTagLists, ir \in OptTagLists :
        MergeInput([BaseSong EXCEPT !.genres = eg, !.grouping = er],
                   [BaseIncoming EXCEPT !.genres = ig, !.grouping = ir],
                   rekordboxSource(PathA))

InitScalars ==
    \E eb \in {None, Some(120)}, ey \in {None, Some(1999)}, er \in {None, Some(3)},
       ek \in {None, Some(StrAm)}, ea \in {None, Some(StrX)},
       ib \in {None, Some(0), Some(128)}, iy \in {None, Some(2001)},
       ir \in {None, Some(5)}, ik \in OptStrings, ia \in OptStrings :
        MergeInput([BaseSong EXCEPT !.bpm = eb, !.year = ey, !.rating = er,
                                    !.key = ek, !.album = ea],
                   [BaseIncoming EXCEPT !.bpm = ib, !.year = iy, !.rating = ir,
                                        !.key = ik, !.album = ia],
                   rekordboxSource(PathA))

InitDuration ==
    \E ed \in {None, Some(0), Some(320000)},
       id \in {None, Some(0), Some(0 - 1), Some(322000)} :
        MergeInput([BaseSong EXCEPT !.duration = ed],
                   [BaseIncoming EXCEPT !.duration = id],
                   rekordboxSource(PathA))

InitSources ==
    \E es \in SeqsUpTo(MergeSources, MaxExistingSources), ns \in MergeSources :
        MergeInput([BaseSong EXCEPT !.sources = es], BaseIncoming, ns)

InitMerge == InitTags \/ InitScalars \/ InitDuration \/ InitSources

MergeSongData ==
    /\ Len(history) = 1
    /\ call.op = "mergeInput"
    /\ history' = <<[call EXCEPT !.op = "merge", !.outcome = "merged",
                                 !.merged = Some(mergeSongData(Val(call.existing),
                                                               call.songData,
                                                               call.source))]>>
    /\ UNCHANGED <<catalog, nextId>>

NextMerge == MergeSongData

SpecMerge == InitMerge /\ [][NextMerge]_vars

----------------------------------------------------------------------------
(* Properties                                                              *)

\* The identity key of a Source: its sourceMetadata.id if present, otherwise
\* its filePath
IdentityKey(s) == IF IsSome(MetaId(s)) THEN MetaId(s) ELSE s.filePath

SameIdentity(s, t) == s.sourceType = t.sourceType /\ IdentityKey(s) = IdentityKey(t)

Range(q) == {q[i] : i \in 1..Len(q)}

\* The Songs of cat with this _id
SongsWithId(cat, id) == {cat[i] : i \in IndexOfId(cat, id)}

IsUpsert(h) == h.op = "upsert"

\* C1: starting from an empty catalog, two sequential upserts whose
\* artist/title normalize to the same non-empty key and whose durations d1, d2
\* are positive leave exactly one Song (carrying both Sources when they differ
\* in type or identity key) if |d1 - d2| <= 2000, and two Songs otherwise.
C1_TwoUpsertsOneOrTwoSongs ==
    (/\ Len(history) = 2
     /\ IsUpsert(history[1]) /\ IsUpsert(history[2])
     /\ history[1].before = <<>>
     /\ Len(normalizeArtistTitle(history[1].artist, history[1].title)) > 0
     /\ normalizeArtistTitle(history[1].artist, history[1].title)
           = normalizeArtistTitle(history[2].artist, history[2].title)
     /\ DurationGiven(history[1].duration) /\ DurationGiven(history[2].duration))
    => LET d1 == Val(history[1].duration)
           d2 == Val(history[2].duration)
           s1 == history[1].source
           s2 == history[2].source
       IN IF Abs(d1 - d2) <= 2000
          THEN /\ Len(catalog) = 1
               /\ ~SameIdentity(s1, s2) => catalog[1].sources = <<s1, s2>>
          ELSE /\ Len(catalog) = 2
               /\ catalog[1].id # catalog[2].id

\* C2: after any sequence of upserts every Song has at least one Source, and
\* no upsert reduces the number of Sources of any Song.
C2_SourcesNeverEmptyNeverShrink ==
    /\ \A i \in 1..Len(catalog) : Len(catalog[i].sources) >= 1
    /\ \A i \in 1..Len(call.before) :
          \E j \in 1..Len(catalog) :
             /\ catalog[j].id = call.before[i].id
             /\ Len(catalog[j].sources) >= Len(call.before[i].sources)

\* An upsert merged a second Source into a Song, and another replaced one
C2_Witness ==
    /\ call.outcome = "updated"
    /\ \E s \in SongsWithId(catalog, call.id) :
          /\ Len(s.sources) = 2
          /\ Len(Val(call.existing).sources) = 1

\* C3: within every Song there is at most one Source per (source type,
\* identity key) pair.
C3_OneSourcePerIdentity ==
    \A k \in 1..Len(catalog) :
       \A i, j \in 1..Len(catalog[k].sources) :
          i # j => ~SameIdentity(catalog[k].sources[i], catalog[k].sources[j])

\* C5: an upsert whose Source has the type and identity key of a Source the
\* matched Song already holds leaves the number of Sources unchanged and
\* changes no other Source entry.
C5_SameSourceUpdatedInPlace ==
    (/\ IsUpsert(call)
     /\ call.outcome = "updated"
     /\ \E i \in 1..Len(Val(call.existing).sources) :
           SameIdentity(Val(call.existing).sources[i], castSource(call.source)))
    => \A s \in SongsWithId(catalog, call.id) :
          LET old == Val(call.existing).sources
          IN /\ Len(s.sources) = Len(old)
             /\ \A i \in 1..Len(old) :
                   ~SameIdentity(old[i], castSource(call.source)) => s.sources[i] = old[i]

\* C6: once a Song's stored duration is positive, no later merge or upsert
\* changes it, whatever duration the call carries.
C6_DurationLockIn ==
    \A i \in 1..Len(call.before) :
       (IsSome(call.before[i].duration) /\ Val(call.before[i].duration) > 0)
       => \A s \in SongsWithId(catalog, call.before[i].id) :
             s.duration = call.before[i].duration

\* A Song with a positive duration was merged with a different positive one
C6_Witness ==
    /\ call.outcome = "updated"
    /\ IsSome(Val(call.existing).duration) /\ Val(Val(call.existing).duration) > 0
    /\ IsSome(call.songData.duration) /\ Val(call.songData.duration) > 0
    /\ call.songData.duration # Val(call.existing).duration

\* C10: when upsert finds no match (and the key is not empty) it inserts
\* exactly one new Song with the call's artist, title and duration, with
\* sources = [source] and with artistTitleNormalized = normalize(artist,
\* title), whether or not songFields carries an artistTitleNormalized.
C10_NoMatchInserts ==
    (/\ IsUpsert(call)
     /\ call.existing = None
     /\ Len(normalizeArtistTitle(call.artist, call.title)) > 0)
    => /\ call.outcome = "inserted"
       /\ Len(catalog) = Len(call.before) + 1
       /\ SubSeq(catalog, 1, Len(call.before)) = call.before
       /\ LET new == catalog[Len(catalog)]
          IN /\ new.artist = Some(call.artist)
             /\ new.title = Some(call.title)
             /\ new.duration = call.duration
             /\ new.sources = <<call.source>>
             /\ new.artistTitleNormalized
                   = Some(normalizeArtistTitle(call.artist, call.title))

\* C9: in every reachable catalog state, after any sequence of upsert,
\* createSong and updateSong calls, each Song's artistTitleNormalized equals
\* normalize(artist, title) of its current artist and title.
C9_NormalizedIdentityCurrent ==
    \A i \in 1..Len(catalog) :
       catalog[i].artistTitleNormalized
          = Some(normalizeArtistTitle(StrOf(catalog[i].artist), StrOf(catalog[i].title)))

IsMerge(h) == h.op = "merge"

NoDuplicates(q) == \A i, j \in 1..Len(q) : i # j => q[i] # q[j]

\* The tags an incoming record provides for a field, none when it has none
Provided(o) == IF IsSome(o) THEN Val(o) ELSE <<>>

\* Existing and incoming tags are all in the merged list, and nothing else is
TagsAreUnion(existingTags, incomingTags, mergedTags) ==
    /\ Range(existingTags) \subseteq Range(mergedTags)
    /\ Range(Provided(incomingTags)) \subseteq Range(mergedTags)
    /\ Range(mergedTags) \subseteq Range(existingTags) \cup Range(Provided(incomingTags))

\* C7 as stated: the merged genres (and grouping) contain every existing
\* value, every incoming value and nothing else, and never have fewer elements
\* than before the merge.
C7_TagsUnionNeverFewerElements ==
    IsMerge(call) =>
       LET e == Val(call.existing)
           m == Val(call.merged)
       IN /\ TagsAreUnion(e.genres, call.songData.genres, Val(m.genres))
          /\ TagsAreUnion(e.grouping, call.songData.grouping, Val(m.grouping))
          /\ Len(Val(m.genres)) >= Len(e.genres)
          /\ Len(Val(m.grouping)) >= Len(e.grouping)

\* C7 amended: the merged genres (and grouping) contain every existing value,
\* every incoming value and nothing else, so they never have fewer distinct
\* values than before the merge; the list itself is never shorter when the
\* existing list holds no value twice.
C7_TagsUnionNeverFewerValues ==
    IsMerge(call) =>
       LET e == Val(call.existing)
           m == Val(call.merged)
       IN /\ TagsAreUnion(e.genres, call.songData.genres, Val(m.genres))
          /\ TagsAreUnion(e.grouping, call.songData.grouping, Val(m.grouping))
          /\ Cardinality(Range(Val(m.genres))) >= Cardinality(Range(e.genres))
          /\ Cardinality(Range(Val(m.grouping))) >= Cardinality(Range(e.grouping))
          /\ NoDuplicates(e.genres) => Len(Val(m.genres)) >= Len(e.genres)
          /\ NoDuplicates(e.grouping) => Len(Val(m.grouping)) >= Len(e.grouping)

\* A merge of incoming genres into a list that holds a value twice, and into
\* one that gains a value
C7_Witness ==
    /\ IsMerge(call)
    /\ IsSome(call.songData.genres)
    /\ ~NoDuplicates(Val(call.existing).genres)
    /\ Range(Val(call.songData.genres)) \ Range(Val(call.existing).genres) # {}
    /\ Len(Val(Val(call.merged).genres)) = Len(Val(call.existing).genres)

\* C8: for each of bpm, year, rating, key and album the merged value is the
\* incoming value when the incoming record provides one (non-null; for key and
\* album also non-empty) and the existing value otherwise.
C8_ScalarsPreferIncoming ==
    IsMerge(call) =>
       LET e == Val(call.existing)
           inc == call.songData
           m == Val(call.merged)
       IN /\ m.bpm = IF inc.bpm # None THEN inc.bpm ELSE e.bpm
          /\ m.year = IF inc.year # None THEN inc.year ELSE e.year
          /\ m.rating = IF inc.rating # None THEN inc.rating ELSE e.rating
          /\ m.key = IF inc.key # None /\ inc.key # Some(<<>>) THEN inc.key ELSE e.key
          /\ m.album = IF inc.album # None /\ inc.album # Some(<<>>)
                       THEN inc.album ELSE e.album

\* A merge whose incoming record lacks bpm, has an empty key and provides a
\* year and an album kept the known bpm and key and took the year and album
C8_Witness ==
    /\ IsMerge(call)
    /\ call.songData.bpm = None /\ Val(call.existing).bpm # None
    /\ Val(call.merged).bpm = Val(call.existing).bpm
    /\ call.songData.key = Some(<<>>) /\ Val(call.existing).key # None
    /\ Val(call.merged).key = Val(call.existing).key
    /\ call.songData.year # None /\ Val(call.merged).year = call.songData.year
    /\ call.songData.album = Some(StrAm) /\ Val(call.existing).album = Some(StrX)
    /\ Val(call.merged).album = Some(StrAm)

\* C4 as stated: merge appends the incoming Source and leaves every existing
\* Source in place whenever no existing Source of the same type has the
\* incoming Source's identity key; an existing Source is replaced only when
\* its type and identity key both equal the incoming Source's.
C4_ReplaceOnlySameIdentity ==
    IsMerge(call) =>
       LET old == Val(call.existing).sources
           new == Val(Val(call.merged).sources)
       IN /\ (\A i \in 1..Len(old) : ~SameIdentity(old[i], call.source))
                => new = Append(old, call.source)
          /\ \A i \in 1..Len(old) :
                (i > Len(new) \/ new[i] # old[i]) => SameIdentity(old[i], call.source)

\* An existing Source is the incoming one's earlier import: it has the same
\* source type and either its sourceMetadata.id equals the incoming Source's
\* non-empty key (sourceMetadata.id, or filePath when that id is missing or
\* empty) or its filePath equals the incoming Source's non-empty filePath
EarlierImportOf(s, newSource) ==
    LET id == IF IsSome(newSource.sourceMetadata) THEN Val(newSource.sourceMetadata).id
              ELSE None
        key == IF id # None /\ id # Some(<<>>) THEN id ELSE newSource.filePath
    IN /\ s.sourceType = newSource.sourceType
       /\ \/ key # None /\ key # Some(<<>>) /\ IsSome(s.sourceMetadata)
                /\ Val(s.sourceMetadata).id = key
          \/ newSource.filePath # None /\ newSource.filePath # Some(<<>>)
                /\ s.filePath = newSource.filePath

\* C4 amended: merge appends the incoming Source and leaves every existing
\* Source in place whenever no existing Source is an earlier import of it;
\* otherwise it replaces the first such Source, and only that one.
C4_ReplaceFirstEarlierImport ==
    IsMerge(call) =>
       LET old == Val(call.existing).sources
           new == Val(Val(call.merged).sources)
           hits == {i \in 1..Len(old) : EarlierImportOf(old[i], call.source)}
       IN IF hits = {}
          THEN new = Append(old, call.source)
          ELSE /\ Len(new) = Len(old)
               /\ \A i \in 1..Len(old) :
                     new[i] = IF i \in hits /\ \A j \in hits : i <= j
                              THEN call.source ELSE old[i]

\* A merge replaced a Source that has the incoming Source's filePath and a
\* different sourceMetadata.id, and kept another Source in place
C4_Witness ==
    /\ IsMerge(call)
    /\ Len(Val(call.existing).sources) = 2
    /\ Len(Val(Val(call.merged).sources)) = 2
    /\ \E i \in 1..2 :
          /\ Val(Val(call.merged).sources)[i] = call.source
          /\ Val(call.existing).sources[i] # call.source
          /\ Truthy(MetaId(call.source))
          /\ Truthy(MetaId(Val(call.existing).sources[i]))
          /\ MetaId(Val(call.existing).sources[i]) # MetaId(call.source)
          /\ Val(Val(call.merged).sources)[3 - i] = Val(call.existing).sources[3 - i]

----------------------------------------------------------------------------
(* Reads and writes of one upsert                                          *)

\* C11 as stated: every upsert performs exactly one catalog read and, unless
\* it fails, exactly one catalog write (one update or one insert); a call that
\* fails leaves no partial write.
C11_OneReadOneWrite ==
    IsUpsert(call) =>
       /\ call.reads = 1
       /\ call.outcome \in {"inserted", "updated"} => call.writes = 1
       /\ call.outcome \notin {"inserted", "updated"} => catalog = call.before

\* C11 amended: an upsert performs exactly one catalog read when the
\* normalized key of its artist and title is not empty and none when it is
\* empty; a call that succeeds performs exactly one write, which changes or
\* adds exactly one Song, and a call that fails performs none and leaves the
\* catalog as it was.
C11_OneReadUnlessEmptyKey ==
    IsUpsert(call) =>
       /\ call.reads = IF normalizeArtistTitle(call.artist, call.title) = <<>> THEN 0 ELSE 1
       /\ call.outcome = "inserted" =>
             /\ call.writes = 1
             /\ Len(catalog) = Len(call.before) + 1
             /\ SubSeq(catalog, 1, Len(call.before)) = call.before
       /\ call.outcome = "updated" =>
             /\ call.writes = 1
             /\ Len(catalog) = Len(call.before)
             /\ \A i \in 1..Len(catalog) :
                   catalog[i].id # call.id => catalog[i] = call.before[i]
       /\ call.outcome \notin {"inserted", "updated"} =>
             /\ call.writes = 0
             /\ catalog = call.before

\* An upsert with an empty artist sent no query and was rejected, leaving the
\* Song that was there
C11_Witness ==
    /\ IsUpsert(call)
    /\ call.reads = 0
    /\ call.outcome = "rejected"
    /\ Len(catalog) = 1
    /\ catalog = call.before

----------------------------------------------------------------------------
(* upsertSongWithMerge as the two steps its awaits separate: the match     *)
(* lookup, and later the write; deleteSong may run in between              *)

MaxRaceCalls == 3

MaxDeletes == 1

\* findByIdAndUpdate with the option upsert: a missing document is created
findByIdAndUpsert(cat, id, update) ==
    IF IndexOfId(cat, id) # {}
    THEN [i \in 1..Len(cat) |-> IF cat[i].id = id THEN applyUpdate(cat[i], update) ELSE cat[i]]
    ELSE Append(cat, applyUpdate([NewSong(EmptyData) EXCEPT !.id = id], update))

\* Song.findByIdAndUpdate(existing._id, merged, { new: true }) of the update
\* path: the catalog it leaves; a missing document is left missing
updateExisting(cat, id, update) == findByIdAndUpdate(cat, id, update)

\* The write of the update path merging into the document as it is stored now
existingSongReread(cat, entry) ==
    IF IndexOfId(cat, entry.id) # {}
    THEN CHOOSE song \in SongsWithId(cat, entry.id) : TRUE
    ELSE Val(entry.existing)

\* The document mergeSongData receives: the one the lookup returned
existingSong(cat, entry) == Val(entry.existing)

\* newSong.save() that first looks for a Song of the same identity
insertNewIfAbsent(cat, id, doc) ==
    IF Validates(doc)
          /\ findMatchingSong(cat, StrOf(doc.artist), StrOf(doc.title), doc.duration) = {0}
    THEN Append(cat, [preSave(doc) EXCEPT !.id = id])
    ELSE cat

\* newSong.save() of the insert path: the catalog it leaves
insertNew(cat, id, doc) ==
    IF Validates(doc) THEN Append(cat, [preSave(doc) EXCEPT !.id = id]) ELSE cat

\* Line 188: await this.findMatchingSong(artist, title, duration)
upsertRead(artist, title, duration, songData, source) ==
    \E m \in findMatchingSong(catalog, artist, title, duration) :
       /\ history' = Append(history,
             [NoCall EXCEPT !.op = "upsert", !.artist = artist, !.title = title,
                            !.duration = duration, !.songData = songData,
                            !.source = source, !.before = catalog,
                            !.reads = findReads(artist, title),
                            !.existing = IF m # 0 THEN Some(catalog[m]) ELSE None,
                            !.id = IF m # 0 THEN catalog[m].id ELSE 0,
                            !.outcome = "pending"])
       /\ UNCHANGED <<catalog, nextId>>

\* Lines 190-208, run by the call recorded at position k once its lookup has
\* returned
upsertWrite(k) ==
    LET e == history[k]
    IN /\ e.outcome = "pending"
       /\ IF IsSome(e.existing)
          THEN LET merged == mergeSongData(existingSong(catalog, e), e.songData, e.source)
                   after == updateExisting(catalog, e.id, merged)
                   updated == IndexOfId(after, e.id) # {}
               IN /\ catalog' = after
                  /\ nextId' = nextId
                  /\ history' = [history EXCEPT ![k] =
                                    [e EXCEPT !.merged = Some(merged),
                                              !.outcome = IF updated THEN "updated"
                                                          ELSE "failed",
                                              !.writes = IF updated THEN 1 ELSE 0]]
          ELSE LET doc == NewSong(newSongFields(e.artist, e.title, e.duration,
                                                e.songData, e.source))
               IN /\ catalog' = insertNew(catalog, nextId, doc)
                  /\ nextId' = IF Validates(doc) THEN nextId + 1 ELSE nextId
                  /\ history' = [history EXCEPT ![k] =
                                    [e EXCEPT !.outcome = IF Validates(doc) THEN "inserted"
                                                          ELSE "rejected",
                                              !.id = IF Validates(doc) THEN nextId ELSE 0,
                                              !.writes = IF Validates(doc) THEN 1 ELSE 0]]

\* SongService.deleteSong: Song.findByIdAndDelete(id)
deleteSong(id) ==
    /\ catalog' = SelectSeq(catalog, LAMBDA song : song.id # id)
    /\ nextId' = nextId
    /\ history' = Append(history,
          [NoCall EXCEPT !.op = "delete", !.id = id, !.before = catalog,
                         !.outcome = IF IndexOfId(catalog, id) # {} THEN "deleted"
                                     ELSE "notfound",
                         !.writes = IF IndexOfId(catalog, id) # {} THEN 1 ELSE 0])

\* A call's arguments as the Rekordbox and the Apple Music importer build them
rekordboxInput(artist, title, duration, location) ==
    [artist |-> artist, title |-> title, duration |-> duration,
     songData |-> rekordboxSongData(artist, title, duration),
     source |-> rekordboxSource(location)]

appleInput(artist, title, duration, id, location) ==
    [artist |-> artist, title |-> title, duration |-> duration,
     songData |-> appleSongData(title, duration),
     source |-> appleSource(id, location)]

\* The tracks the concurrent callers bring: records of one song
RaceInputs ==
    {rekordboxInput(StrAb, StrGo, Some(320000), PathA),
     rekordboxInput(StrAb, StrGo, Some(322000), PathB),
     appleInput(StrAb, StrGo, Some(320000), Id1, PathA)}

Entries(h, op) == {k \in 1..Len(h) : h[k].op = op}

UpsertRead ==
    /\ Cardinality(Entries(history, "upsert")) < MaxRaceCalls
    /\ \E in \in RaceInputs :
          upsertRead(in.artist, in.title, in.duration, in.songData, in.source)

UpsertWrite == \E k \in 1..Len(history) : upsertWrite(k)

DeleteSong ==
    /\ Cardinality(Entries(history, "delete")) < MaxDeletes
    /\ \E id \in 1..(nextId - 1) : deleteSong(id)

NextRace == UpsertRead \/ UpsertWrite \/ DeleteSong

SpecRace == Init /\ [][NextRace]_vars

\* C12: when the Song an upsert's lookup returned has been deleted by the time
\* the update is issued, the call fails, issues no further read or write,
\* inserts no Song and leaves the catalog exactly as it was before the write;
\* a failed call stays failed.
C12_DeletedMatchFails ==
    [][\A k \in 1..Len(history) :
          /\ (/\ history[k].outcome = "pending"
              /\ history'[k].outcome # "pending"
              /\ IsSome(history[k].existing)
              /\ IndexOfId(catalog, history[k].id) = {})
             => /\ history'[k].outcome = "failed"
                /\ history'[k].reads = history[k].reads
                /\ history'[k].writes = 0
                /\ catalog' = catalog
                /\ nextId' = nextId
                /\ Len(history') = Len(history)
          /\ history[k].outcome = "failed" => history'[k] = history[k]]_vars

\* An upsert has failed on a Song that a deleteSong removed after the lookup
C12_Witness ==
    \E k \in Entries(history, "upsert"), d \in Entries(history, "delete") :
       /\ history[k].outcome = "failed"
       /\ k < d
       /\ history[d].outcome = "deleted"
       /\ history[d].id = history[k].id

Deleted(h, id) == \E d \in Entries(h, "delete") : h[d].id = id /\ h[d].outcome = "deleted"

WithinTolerance(d1, d2) ==
    IsSome(d1) /\ IsSome(d2) /\ Abs(Val(d1) - Val(d2)) <= DurationTolerance

\* C14: two concurrent upserts of the same normalized identity that both found
\* no match both insert: unless deleted since, the catalog holds both Songs,
\* with the same normalized identity.
C14_BothInserted ==
    \A k1, k2 \in Entries(history, "upsert") :
       (/\ k1 < k2
        /\ history[k1].outcome = "inserted"
        /\ history[k2].outcome = "inserted"
        /\ normalizeArtistTitle(history[k1].artist, history[k1].title)
              = normalizeArtistTitle(history[k2].artist, history[k2].title)
        /\ ~Deleted(history, history[k1].id)
        /\ ~Deleted(history, history[k2].id))
       => \E i, j \in 1..Len(catalog) :
             /\ i # j
             /\ catalog[i].id = history[k1].id
             /\ catalog[j].id = history[k2].id
             /\ catalog[i].artistTitleNormalized = catalog[j].artistTitleNormalized
             /\ catalog[i].duration = history[k1].duration
             /\ catalog[j].duration = history[k2].duration

\* Two upserts of one identity, durations within the tolerance, have both
\* inserted: the second looked up before the first wrote
C14_Witness ==
    /\ Entries(history, "delete") = {}
    /\ \E k1, k2 \in Entries(history, "upsert") :
          /\ k1 < k2
          /\ history[k1].outcome = "inserted"
          /\ history[k2].outcome = "inserted"
          /\ history[k2].before = <<>>
          /\ WithinTolerance(history[k1].duration, history[k2].duration)
    /\ \E i, j \in 1..Len(catalog) :
          /\ i # j
          /\ catalog[i].artistTitleNormalized = catalog[j].artistTitleNormalized
          /\ WithinTolerance(catalog[i].duration, catalog[j].duration)

\* C15: the write of an upsert that matched stores the whole record merged
\* from the Song as that call's own lookup returned it, whatever the catalog
\* holds by then.
C15_WriteStoresOwnRead ==
    [][\A k \in 1..Len(history) :
          (history[k].outcome = "pending" /\ history'[k].outcome = "updated")
          => \A i \in IndexOfId(catalog, history[k].id) :
                catalog'[i] = applyUpdate(catalog[i],
                                          mergeSongData(Val(history[k].existing),
                                                        history[k].songData,
                                                        history[k].source))]_vars

\* Two upserts that matched the same Song have both succeeded, their Sources
\* do not match each other, and the stored Song lacks the Source of one
C15_Witness ==
    /\ Entries(history, "delete") = {}
    /\ \E k1, k2 \in Entries(history, "upsert") :
          /\ k1 # k2
          /\ history[k1].outcome = "updated"
          /\ history[k2].outcome = "updated"
          /\ history[k1].id = history[k2].id
          /\ ~sourceMatches(castSource(history[k1].source), history[k2].source)
          /\ ~sourceMatches(castSource(history[k2].source), history[k1].source)
          /\ \E song \in SongsWithId(catalog, history[k1].id) :
                /\ castSource(history[k1].source) \notin Range(song.sources)
                /\ castSource(history[k2].source) \in Range(song.sources)

----------------------------------------------------------------------------
(* Import runs: the loop of importSongs over the tracks of one library     *)
(* file, and a second run over the same file                               *)

MaxTracks == 2

\* The tracks a library file can hold: Name, Artist, Total Time, Location,
\* each attribute possibly missing
TrackNames == {<<>>, StrGo}

TrackArtists == {<<>>, StrAb}

TrackTimes == {Some(320000), Some(322000)}

TrackLocations == {<<>>, PathA, PathB}

Tracks ==
    [name : TrackNames, artist : TrackArtists, totalTime : TrackTimes,
     location : TrackLocations]

Importers == {"rekordbox", "applemusic"}

\* The key of the k-th track in the Tracks dictionary of an Apple Music file
TrackId(k) == <<48 + k>>

\* if (!attrs.Name || attrs.Name.trim() === '') { skipped++; continue; }
skipsTrack(track) == Len(Trim(track.name)) = 0

\* The arguments the importer builds for the k-th track of the file
trackInput(importer, k, track) ==
    IF importer = "rekordbox"
    THEN rekordboxInput(track.artist, track.name, track.totalTime, track.location)
    ELSE LET in == appleInput(track.artist, track.name, track.totalTime,
                              TrackId(k), track.location)
         IN IF Len(track.location) = 0
            THEN [in EXCEPT !.source.filePath = None]
            ELSE in

\* catch (error) { console.error(...); process.exit(1); }: the run has ended
\* once an upsert of it has thrown
exited(h) == \E k \in 1..Len(h) : h[k].outcome \in {"rejected", "failed"}

\* The importer that is running: every upsert of the file comes from it
importerOf(h) == {h[k].source.sourceType : k \in Entries(h, "upsert")}

skipTrack(track) ==
    /\ history' = Append(history,
          [NoCall EXCEPT !.op = "skip", !.artist = track.artist, !.title = track.name,
                         !.duration = track.totalTime, !.before = catalog,
                         !.outcome = "skipped"])
    /\ UNCHANGED <<catalog, nextId>>

\* One iteration of the loop of importSongs
importTrack(importer, k, track) ==
    IF skipsTrack(track)
    THEN skipTrack(track)
    ELSE LET in == trackInput(importer, k, track)
         IN upsertSongWithMerge(in.artist, in.title, in.duration, in.songData, in.source)

\* The next track of the file, first run
ImportTrack ==
    /\ Len(history) < MaxTracks
    /\ ~exited(history)
    /\ \E importer \in Importers, track \in Tracks :
          /\ importerOf(history) \subseteq {importer}
          /\ importTrack(importer, Len(history) + 1, track)

\* The next track of the same file, second run: the first run has ended
\* without an error
ReimportTrack ==
    /\ Len(history) >= MaxTracks
    /\ Len(history) < 2 * MaxTracks
    /\ ~exited(history)
    /\ LET e == history[Len(history) + 1 - MaxTracks]
       IN IF e.op = "skip"
          THEN skipTrack([name |-> e.title, artist |-> e.artist,
                          totalTime |-> e.duration, location |-> <<>>])
          ELSE upsertSongWithMerge(e.artist, e.title, e.duration, e.songData, e.source)

NextImport == ImportTrack \/ ReimportTrack

SpecImport == Init /\ [][NextImport]_vars

\* C13: during an import run the failure of one track's upsert does not end
\* the run: while tracks of the file remain, the next one is processed.
C13_FailureDoesNotAbort ==
    Len(history) < MaxTracks => ENABLED ImportTrack

\* C20: a second import of the same file adds no Song and no Source: after it
\* the catalog has the Songs it had after the first run, each with as many
\* Sources.
C20_ReimportAddsNothing ==
    (Len(history) = 2 * MaxTracks /\ ~exited(history))
    => LET first == history[MaxTracks + 1].before
       IN /\ Len(catalog) = Len(first)
          /\ \A i \in 1..Len(first) : Len(catalog[i].sources) = Len(first[i].sources)

----------------------------------------------------------------------------
(* Repeated upserts and upserts without an artist                          *)

SameArguments(a, b) ==
    /\ a.artist = b.artist
    /\ a.title = b.title
    /\ a.duration = b.duration
    /\ a.songData = b.songData
    /\ a.source = b.source

\* The catalog the k-th operation of the history left
After(k) == IF k = Len(history) THEN catalog ELSE history[k + 1].before

\* C16: an upsert repeated with exactly the same arguments leaves the catalog
\* as the first call left it: the same Songs, field values and Sources.
C16_UpsertIdempotent ==
    \A k \in 1..(Len(history) - 1) :
       (/\ IsUpsert(history[k])
        /\ IsUpsert(history[k + 1])
        /\ SameArguments(history[k], history[k + 1]))
       => After(k + 1) = After(k)

\* C18: an upsert with an empty artist and a non-empty title is accepted and
\* matched: made twice in sequence with the same title and duration, it
\* leaves exactly one Song for the track.
C18_EmptyArtistOneSong ==
    \A k \in 1..(Len(history) - 1) :
       (/\ IsUpsert(history[k])
        /\ IsUpsert(history[k + 1])
        /\ SameArguments(history[k], history[k + 1])
        /\ history[k].artist = <<>>
        /\ Len(Trim(history[k].title)) > 0)
       => /\ history[k].outcome \in {"inserted", "updated"}
          /\ history[k + 1].outcome = "updated"
          /\ Cardinality({i \in 1..Len(After(k + 1)) :
                             /\ ~Truthy(After(k + 1)[i].artist)
                             /\ After(k + 1)[i].title = Some(Trim(history[k].title))}) = 1

\* C19: an upsert whose artist and title give an empty normalized key matches
\* no Song and creates none: the call is refused and the catalog unchanged.
C19_EmptyKeyRefused ==
    (IsUpsert(call) /\ normalizeArtistTitle(call.artist, call.title) = <<>>)
    => /\ call.existing = None
       /\ call.outcome = "rejected"
       /\ catalog = call.before

\* A Rekordbox track without an artist, its normalized identity empty, was
\* refused while the catalog held a Song of the same title
C19_Witness ==
    /\ IsUpsert(call)
    /\ call.artist = <<>>
    /\ call.songData.artistTitleNormalized = Some(<<>>)
    /\ call.outcome = "rejected"
    /\ Len(catalog) = 1
    /\ catalog[1].title = Some(call.title)
    /\ catalog = call.before

----------------------------------------------------------------------------
(* Two incoming records merged into one Song, in either order              *)

\* mergeSongData of the second record into the Song as the update with the
\* merge of the first record left it
mergeThen(existing, first, second) ==
    mergeSongData(applyUpdate(existing,
                              mergeSongData(existing, first.songData, first.source)),
                  second.songData, second.source)

PairSources ==
    [sourceType : {"rekordbox"},
     filePath : {None, Some(PathA), Some(PathB)},
     bitRate : {None},
     sourceMetadata : {None, Some([id |-> Some(Id1)]), Some([id |-> Some(Id2)])}]

PairInput(existing, a, sa, b, sb) ==
    /\ catalog = <<existing>>
    /\ nextId = 2
    /\ history = <<[NoCall EXCEPT !.op = "mergeInput", !.existing = Some(existing),
                                  !.songData = a, !.source = sa],
                   [NoCall EXCEPT !.op = "mergeInput", !.existing = Some(existing),
                                  !.songData = b, !.source = sb]>>

PairTags ==
    \E eg \in TagLists, ag \in OptTagLists, bg \in OptTagLists,
       ar \in {None, Some(<<"DJing">>)}, br \in {None, Some(<<"warm">>)} :
        PairInput([BaseSong EXCEPT !.genres = eg],
                  [BaseIncoming EXCEPT !.genres = ag, !.grouping = ar],
                  rekordboxSource(PathA),
                  [BaseIncoming EXCEPT !.genres = bg, !.grouping = br],
                  rekordboxSource(PathA))

PairScalars ==
    \E eb \in {None, Some(120)}, ek \in {None, Some(StrAm)},
       ab \in {None, Some(0), Some(128)}, bb \in {None, Some(128), Some(140)},
       ay \in {None, Some(2001)}, by \in {None, Some(2002)},
       ar \in {None, Some(5)},
       ak \in {None, Some(<<>>), Some(StrAm)}, bk \in {None, Some(StrX)},
       aa \in {None, Some(StrX)}, ba \in {None, Some(StrAm)} :
        PairInput([BaseSong EXCEPT !.bpm = eb, !.key = ek, !.album = None],
                  [BaseIncoming EXCEPT !.bpm = ab, !.year = ay, !.rating = ar,
                                       !.key = ak, !.album = aa],
                  rekordboxSource(PathA),
                  [BaseIncoming EXCEPT !.bpm = bb, !.year = by, !.rating = Some(3),
                                       !.key = bk, !.album = ba],
                  rekordboxSource(PathA))

PairDuration ==
    \E ed \in {None, Some(0), Some(320000)},
       ad \in {None, Some(0), Some(320000), Some(322000)},
       bd \in {None, Some(0), Some(320000), Some(322000)} :
        PairInput([BaseSong EXCEPT !.duration = ed],
                  [BaseIncoming EXCEPT !.duration = ad], rekordboxSource(PathA),
                  [BaseIncoming EXCEPT !.duration = bd], rekordboxSource(PathA))

PairSourceLists ==
    \E es \in SeqsUpTo(PairSources, MaxExistingSources),
       sa \in PairSources, sb \in PairSources :
        PairInput([BaseSong EXCEPT !.sources = es], BaseIncoming, sa, BaseIncoming, sb)

InitPair == PairTags \/ PairScalars \/ PairDuration \/ PairSourceLists

\* Both orders of the two merges: the first entry receives the record that
\* merging its own data and then the other's yields, the second entry the
\* record of the opposite order
MergePair ==
    /\ Len(history) = 2
    /\ history[1].op = "mergeInput"
    /\ LET existing == Val(history[1].existing)
       IN history' =
             <<[history[1] EXCEPT !.op = "merge", !.outcome = "merged",
                   !.merged = Some(mergeThen(existing, history[1], history[2]))],
               [history[2] EXCEPT !.op = "merge", !.outcome = "merged",
                   !.merged = Some(mergeThen(existing, history[2], history[1]))]>>
    /\ UNCHANGED <<catalog, nextId>>

NextPair == MergePair

SpecPair == InitPair /\ [][NextPair]_vars

IsPairMerged == Len(history) = 2 /\ IsMerge(history[1]) /\ IsMerge(history[2])

\* The Song stored after both merges, in the order that starts with entry k
StoredAfter(k) == applyUpdate(catalog[1], Val(history[k].merged))

CountOf(q, x) == Cardinality({i \in 1..Len(q) : q[i] = x})

SameCollection(p, q) ==
    /\ Len(p) = Len(q)
    /\ \A x \in Range(p) \cup Range(q) : CountOf(p, x) = CountOf(q, x)

SameTags == 
    /\ Range(StoredAfter(1).genres) = Range(StoredAfter(2).genres)
    /\ Range(StoredAfter(1).grouping) = Range(StoredAfter(2).grouping)

\* C17 as stated: merging two incoming records into a Song in one order and
\* in the other yields the same song-level field values and the same
\* collection of Sources.
C17_MergeCommutative ==
    IsPairMerged =>
       /\ SameTags
       /\ \A f \in {"bpm", "year", "rating", "key", "album", "duration"} :
             StoredAfter(1)[f] = StoredAfter(2)[f]
       /\ SameCollection(StoredAfter(1).sources, StoredAfter(2).sources)

\* C17 amended: the two orders yield the same sets of genres and grouping
\* values; the same bpm, year, rating, key and album unless both records
\* provide different values for the field; the same duration unless the Song
\* has none and both records provide different positive durations; and the
\* same collection of Sources when neither incoming Source matches the other
\* and no Source of the Song is matched by both.
C17_MergeCommutesWithoutConflict ==
    IsPairMerged =>
       LET a == history[1]
           b == history[2]
           existing == catalog[1]
       IN /\ SameTags
          /\ \A f \in {"bpm", "year", "rating"} :
                ~(IsSome(a.songData[f]) /\ IsSome(b.songData[f])
                     /\ a.songData[f] # b.songData[f])
                => StoredAfter(1)[f] = StoredAfter(2)[f]
          /\ \A f \in {"key", "album"} :
                ~(Truthy(a.songData[f]) /\ Truthy(b.songData[f])
                     /\ a.songData[f] # b.songData[f])
                => StoredAfter(1)[f] = StoredAfter(2)[f]
          /\ (TruthyNum(existing.duration)
                 \/ ~(DurationGiven(a.songData.duration) /\ DurationGiven(b.songData.duration)
                         /\ a.songData.duration # b.songData.duration))
             => StoredAfter(1).duration = StoredAfter(2).duration
          /\ (/\ ~sourceMatches(castSource(a.source), b.source)
              /\ ~sourceMatches(castSource(b.source), a.source)
              /\ \A i \in 1..Len(existing.sources) :
                    ~(sourceMatches(existing.sources[i], a.source)
                         /\ sourceMatches(existing.sources[i], b.source)))
             => SameCollection(StoredAfter(1).sources, StoredAfter(2).sources)

\* Two Sources that match neither each other nor a Source of the Song have
\* been added in both orders: the lists differ in order and hold the same
\* Sources
C17_Witness ==
    /\ IsPairMerged
    /\ Len(catalog[1].sources) = 1
    /\ Len(StoredAfter(1).sources) = 3
    /\ StoredAfter(1).sources # StoredAfter(2).sources
    /\ SameCollection(StoredAfter(1).sources, StoredAfter(2).sources)

----------------------------------------------------------------------------
(* normalizeArtistTitle as a function: artist and title are drawn in the   *)
(* initial state and one step computes the key                             *)

MaxFragments == 4

StrOriginal == <<79, 114, 105, 103, 105, 110, 97, 108>>     \* "Original"

\* "Original Mix"
StrOriginalMix == <<79, 114, 105, 103, 105, 110, 97, 108, 32, 77, 105, 120>>

\* "oRIGINAL mIX"
StrOriginalMixSwapped == <<111, 82, 73, 71, 73, 78, 65, 76, 32, 109, 73, 88>>

\* The pieces titles are built from: "Go", " ", " (", ")", "es", "É", "2×",
\* a no-break space, "Mix" and the phrase in two letter cases
Fragments ==
    {StrGo, <<32>>, <<32, 40>>, <<41>>, <<101, 115>>, <<201>>, <<50, 215>>, <<160>>,
     <<77, 105, 120>>, StrOriginalMix, StrOriginalMixSwapped}

RECURSIVE Concat(_)
Concat(q) == IF Len(q) = 0 THEN <<>> ELSE Head(q) \o Concat(Tail(q))

NormalizeTitles == {Concat(q) : q \in SeqsUpTo(Fragments, MaxFragments)}

NormalizeArtists == {StrAb, StrOriginal}

InitNormalize ==
    /\ catalog = <<>>
    /\ nextId = 1
    /\ \E artist \in NormalizeArtists, title \in NormalizeTitles :
          history = <<[NoCall EXCEPT !.op = "normalizeInput", !.artist = artist,
                                     !.title = title]>>

Normalize ==
    /\ Len(history) = 1
    /\ call.op = "normalizeInput"
    /\ history' = <<[call EXCEPT !.op = "normalize", !.outcome = "normalized",
                                 !.key = normalizeArtistTitle(call.artist, call.title)]>>
    /\ UNCHANGED <<catalog, nextId>>

NextNormalize == Normalize

SpecNormalize == InitNormalize /\ [][NextNormalize]_vars

IsNormalize(h) == h.op = "normalize"

\* The phrase "original mix", in any letter case, stands at position i of s
PhraseAt(s, i) ==
    /\ i + Len(OriginalMix) - 1 <= Len(s)
    /\ toLowerCase(SubSeq(s, i, i + Len(OriginalMix) - 1)) = OriginalMix

\* ... and is neither preceded nor followed by an ASCII letter, digit or
\* underscore
WholePhraseAt(s, i) ==
    /\ PhraseAt(s, i)
    /\ (i = 1 \/ ~IsWordChar(s[i - 1]))
    /\ (i + Len(OriginalMix) > Len(s) \/ ~IsWordChar(s[i + Len(OriginalMix)]))

RECURSIVE DeletePhraseFrom(_, _)
DeletePhraseFrom(s, i) ==
    IF i > Len(s) THEN <<>>
    ELSE IF PhraseAt(s, i) THEN DeletePhraseFrom(s, i + Len(OriginalMix))
    ELSE <<s[i]>> \o DeletePhraseFrom(s, i + 1)

\* s with every occurrence of the phrase deleted
DeletePhrase(s) == DeletePhraseFrom(s, 1)

RECURSIVE DeleteWholePhraseFrom(_, _)
DeleteWholePhraseFrom(s, i) ==
    IF i > Len(s) THEN <<>>
    ELSE IF WholePhraseAt(s, i) THEN DeleteWholePhraseFrom(s, i + Len(OriginalMix))
    ELSE <<s[i]>> \o DeleteWholePhraseFrom(s, i + 1)

\* s with every occurrence of the phrase that stands as whole words deleted
DeleteWholePhrase(s) == DeleteWholePhraseFrom(s, 1)

\* C22 as stated: the key of an artist and title equals the key of the same
\* input with every occurrence of "original mix", in any letter case,
\* deleted.
C22_OriginalMixStrippedEverywhere ==
    IsNormalize(call) =>
       call.key = normalizeArtistTitle(DeletePhrase(call.artist), DeletePhrase(call.title))

\* C22 amended: the key equals the key of the same input with every
\* occurrence of "original mix", in any letter case, that stands as whole
\* words deleted, provided the artist and the title stay non-empty.
C22_WholeWordOriginalMixStripped ==
    (/\ IsNormalize(call)
     /\ Len(DeleteWholePhrase(call.artist)) > 0
     /\ Len(DeleteWholePhrase(call.title)) > 0)
    => call.key = normalizeArtistTitle(DeleteWholePhrase(call.artist),
                                       DeleteWholePhrase(call.title))

\* The key of "Original Mix oRIGINAL mIXGo" by "Ab" has been computed: the
\* first occurrence is gone, the second, which runs into "Go", is kept
C22_Witness ==
    /\ IsNormalize(call)
    /\ call.artist = StrAb
    /\ call.title = StrOriginalMix \o <<32>> \o StrOriginalMixSwapped \o StrGo
    /\ call.key = <<97, 98, 32>> \o <<111, 114, 105, 103, 105, 110, 97, 108, 32,
                                      109, 105, 120, 103, 111>>

LettersAndNumbers(s) == SelectSeq(s, LAMBDA c : IsLetter(c) \/ IsNumber(c))

\* Only lowercase letters, digits and single spaces, no space at either end
WellFormedKey(k) ==
    /\ \A i \in 1..Len(k) :
          /\ IsLetter(k[i]) \/ IsNumber(k[i]) \/ k[i] = 32
          /\ LowerChar(k[i]) = k[i]
    /\ \A i \in 1..(Len(k) - 1) : ~(k[i] = 32 /\ k[i + 1] = 32)
    /\ Len(k) > 0 => (k[1] # 32 /\ k[Len(k)] # 32)

----------------------------------------------------------------------------
(* One upsert against a catalog that already holds Songs (stored earlier   *)
(* by createSong or by upserts): the catalog is drawn in the initial state *)

MaxSongs == 2

\* A Song as save() stores it
storedSong(id, artist, title, duration) ==
    [preSave(NewSong(newSongFields(artist, title, duration,
                                   rekordboxSongData(artist, title, duration),
                                   rekordboxSource(PathA))))
        EXCEPT !.id = id]

StoredDurations ==
    {None, Some(0), Some(320000), Some(321500), Some(322500), Some(323000)}

StoredArtists == {StrAb, StrCd}

QueryDurations == {None, Some(0), Some(321000), Some(321900)}

InitStored ==
    /\ \E q \in SeqsUpTo(StoredArtists \X StoredDurations, MaxSongs) :
          catalog = [i \in 1..Len(q) |-> storedSong(i, q[i][1], StrGo, q[i][2])]
    /\ nextId = Len(catalog) + 1
    /\ history = <<>>

UpsertStored ==
    /\ Len(history) = 0
    /\ \E artist \in StoredArtists, duration \in QueryDurations,
          source \in {rekordboxSource(PathB), appleSource(Id1, PathA)} :
          \E songData \in SongDatas(artist, StrGo, duration) :
             upsertSongWithMerge(artist, StrGo, duration, songData, source)

NextStored == UpsertStored

SpecStored == InitStored /\ [][NextStored]_vars

\* The key of the call's artist and title
CallKey == normalizeArtistTitle(call.artist, call.title)

\* The Songs the query of the call selects from the catalog it started from
CallCandidates ==
    {song \in Range(call.before) :
        /\ song.artistTitleNormalized = Some(CallKey)
        /\ DurationGiven(call.duration) =>
              /\ IsSome(song.duration)
              /\ Abs(Val(song.duration) - Val(call.duration)) <= DurationTolerance}

Distance(song) == Abs(Val(song.duration) - Val(call.duration))

C25_ReturnsClosest ==
    (/\ IsUpsert(call)
     /\ DurationGiven(call.duration)
     /\ Cardinality(CallCandidates) >= 2)
    => /\ IsSome(call.existing)
       /\ \A song \in CallCandidates : Distance(Val(call.existing)) <= Distance(song)

\* C26: when no duration is supplied (absent or <= 0) and a stored Song has
\* the incoming key, the Song returned is a stored Song with that key,
\* whatever its stored duration, and the upsert updates it and creates no
\* Song.
C26_NoDurationMatchesByKey ==
    (/\ IsUpsert(call)
     /\ ~(IsSome(call.duration) /\ Val(call.duration) > 0)
     /\ Len(CallKey) > 0
     /\ \E song \in Range(call.before) : song.artistTitleNormalized = Some(CallKey))
    => /\ IsSome(call.existing)
       /\ Val(call.existing) \in Range(call.before)
       /\ Val(call.existing).artistTitleNormalized = Some(CallKey)
       /\ call.outcome = "updated"
       /\ Len(catalog) = Len(call.before)

\* An upsert with duration 0 was matched to a Song with a stored duration
\* while a Song of the other key stayed aside
C26_Witness ==
    /\ IsUpsert(call)
    /\ call.duration = Some(0)
    /\ Len(call.before) = 2
    /\ Cardinality(CallCandidates) = 1
    /\ IsSome(call.existing)
    /\ Val(call.existing).duration = Some(323000)
    /\ call.outcome = "updated"

\* C27: an upsert with a positive duration never matches a Song without a
\* stored duration; such Songs are left unchanged and the incoming track is
\* merged into another Song or stored as a new one.
C27_DurationNeverMatchesSongWithout ==
    (IsUpsert(call) /\ DurationGiven(call.duration))
    => /\ IsSome(call.existing) => IsSome(Val(call.existing).duration)
       /\ \A i \in 1..Len(call.before) :
             ~IsSome(call.before[i].duration) => catalog[i] = call.before[i]
       /\ call.outcome \in {"updated", "inserted"}

\* C30: an upsert changes at most one Song: an insert adds one Song and
\* leaves the others as they were, an update changes only the matched Song,
\* whose artist, title and normalized identity stay, and no Song is deleted.
C30_ChangesAtMostOneSong ==
    IsUpsert(call) =>
       /\ Len(catalog) >= Len(call.before)
       /\ Len(catalog) <= Len(call.before) + 1
       /\ \A i \in 1..Len(call.before) : catalog[i].id = call.before[i].id
       /\ Cardinality({i \in 1..Len(call.before) : catalog[i] # call.before[i]})
             + (Len(catalog) - Len(call.before)) <= 1
       /\ \A i \in 1..Len(call.before) :
             catalog[i] # call.before[i] =>
                /\ call.outcome = "updated"
                /\ catalog[i].id = call.id
                /\ catalog[i].artist = call.before[i].artist
                /\ catalog[i].title = call.before[i].title
                /\ catalog[i].artistTitleNormalized = call.before[i].artistTitleNormalized
       /\ call.outcome = "inserted" <=> Len(catalog) = Len(call.before) + 1

\* Of two stored Songs with the incoming key, one was updated and the other
\* left as it was
C30_Witness ==
    /\ IsUpsert(call)
    /\ call.outcome = "updated"
    /\ Len(call.before) = 2
    /\ call.before[1].artistTitleNormalized = call.before[2].artistTitleNormalized
    /\ Cardinality({i \in 1..2 : catalog[i] # call.before[i]}) = 1

----------------------------------------------------------------------------
(* The Sources a merge leaves                                              *)

\* C28: when an existing Source matches the incoming one, the merge puts the
\* incoming Source in its position, nothing of the old entry surviving, and
\* every other Source keeps content and position; when none matches, the
\* incoming Source is added at the end and the existing entries keep content
\* and order.
C28_SourceReplacedInPlaceOrAppended ==
    IsMerge(call) =>
       LET e == Val(call.existing).sources
           m == Val(Val(call.merged).sources)
           matching == {i \in 1..Len(e) : sourceMatches(e[i], call.source)}
       IN IF matching # {}
          THEN /\ Len(m) = Len(e)
               /\ \E i \in matching :
                     /\ m[i] = call.source
                     /\ \A j \in 1..Len(e) : j # i => m[j] = e[j]
          ELSE /\ Len(m) = Len(e) + 1
               /\ m[Len(m)] = call.source
               /\ \A j \in 1..Len(e) : m[j] = e[j]

\* The first of two Sources was matched by file path and replaced by an
\* incoming Source that has no sourceMetadata; the second kept its place
C28_Witness ==
    /\ IsMerge(call)
    /\ Len(Val(call.existing).sources) = 2
    /\ sourceMatches(Val(call.existing).sources[1], call.source)
    /\ IsSome(Val(call.existing).sources[1].sourceMetadata)
    /\ ~IsSome(call.source.sourceMetadata)
    /\ Val(Val(call.merged).sources) = <<call.source, Val(call.existing).sources[2]>>

----------------------------------------------------------------------------
(* The catalog after sequential upserts                                    *)

----------------------------------------------------------------------------
(* Ratings: tracks with a Rating attribute, imported by either importer    *)

MaxRatedTracks == 2

IsDigit(c) == c \in 48..57

RECURSIVE LeadingDigits(_)
\* The longest prefix of s made of decimal digits
LeadingDigits(s) ==
    IF Len(s) = 0 \/ ~IsDigit(Head(s)) THEN <<>>
    ELSE <<Head(s)>> \o LeadingDigits(Tail(s))

RECURSIVE DecimalValue(_)
DecimalValue(digits) ==
    IF Len(digits) = 0 THEN 0
    ELSE 10 * DecimalValue(SubSeq(digits, 1, Len(digits) - 1)) + (digits[Len(digits)] - 48)

\* parseInt(s, 10): leading whitespace, an optional sign, then digits; None
\* stands for NaN
parseInt(s) ==
    LET t == TrimLeft(s)
        negative == Len(t) > 0 /\ t[1] = 45
        signed == Len(t) > 0 /\ t[1] \in {43, 45}
        digits == LeadingDigits(IF signed THEN Tail(t) ELSE t)
    IN IF Len(digits) = 0 THEN None
       ELSE Some(IF negative THEN 0 - DecimalValue(digits) ELSE DecimalValue(digits))

\* attrs.Rating ? parseInt(attrs.Rating, 10) || undefined : undefined
rekordboxRating(attr) ==
    IF Truthy(attr)
    THEN LET n == parseInt(Val(attr))
         IN IF IsSome(n) /\ Val(n) # 0 THEN n ELSE None
    ELSE None

\* convertRating of a numeric Rating, then rating || undefined.  The ratings
\* drawn are multiples of 20, for which num / 20 is an integer.
convertRating(rating) ==
    IF ~TruthyNum(rating) THEN None
    ELSE IF Val(rating) \div 20 = 0 THEN None ELSE Some(Val(rating) \div 20)

\* Rating attributes of a Rekordbox file: absent, "0", "5", "51", "255"
RekordboxRatings == {None, Some(<<48>>), Some(<<53>>), Some(<<53, 49>>), Some(<<50, 53, 53>>)}

\* Rating values of an Apple Music file: absent, 0, 60, 100
AppleRatings == {None, Some(0), Some(60), Some(100)}

RatedDurations == {Some(320000), Some(324500)}

\* The arguments the importer builds for a rated track
ratedInput(importer, duration, rating) ==
    IF importer = "rekordbox"
    THEN [rekordboxInput(StrAb, StrGo, duration, PathA)
             EXCEPT !.songData.rating = rekordboxRating(rating)]
    ELSE [appleInput(StrAb, StrGo, duration, Id1, PathA)
             EXCEPT !.songData.rating = convertRating(rating)]

ImportRatedTrack ==
    /\ Len(history) < MaxRatedTracks
    /\ \E importer \in Importers, duration \in RatedDurations :
          \E rating \in (IF importer = "rekordbox" THEN RekordboxRatings ELSE AppleRatings) :
             LET in == ratedInput(importer, duration, rating)
             IN upsertSongWithMerge(in.artist, in.title, in.duration, in.songData, in.source)

NextRated == ImportRatedTrack

SpecRated == Init /\ [][NextRated]_vars

\* C21: after any sequence of imports and upserts, every stored rating lies
\* between 0 and 5.
C21_RatingWithinScale ==
    \A i \in 1..Len(catalog) :
       IsSome(catalog[i].rating) =>
          (Val(catalog[i].rating) >= 0 /\ Val(catalog[i].rating) <= 5)

====
